---- MODULE Spec2Model ----
(***************************************************************************)
(* Class / closure-factory / thin-factory heavy objects, the population    *)
(* generator that retains them, the heap-snapshot protocol and the command *)
(* that drives them.                                                       *)
(*                                                                         *)
(* Numbers.  A JavaScript 32-bit integer is modelled by its two's          *)
(* complement value in -2^31 .. 2^31-1 (a uint32 such as the result of     *)
(* `>>> 0` is the same bit pattern).  A JavaScript double is modelled as   *)
(* a fixed-point number: an integer count of units of 10^-6, every         *)
(* multiplication, division and square root truncated toward zero to that  *)
(* grid; additions and subtractions are exact.  The primitives are         *)
(* functions, so that an argument is evaluated once, as in the language.   *)
(*                                                                         *)
(* Arrays.  An array is an entry of the heap `arrays`; an object holds the *)
(* reference.  A method is an operator of the object and the current       *)
(* content of its array, giving [obj, vals, ret]: the object and the       *)
(* array content after the call, and the value returned.                   *)
(***************************************************************************)
EXTENDS Integers, Sequences, FiniteSets, TLC

-----------------------------------------------------------------------------
(* 32-bit integer primitives of the language *)

Two8  == 2^8
Two16 == 2^16

\* a ^ b on 4-bit operands
NibbleXor ==
  [i \in 0..15 |-> [j \in 0..15 |->
     ((i + j) % 2)
     + 2 * (((i \div 2) + (j \div 2)) % 2)
     + 4 * (((i \div 4) + (j \div 4)) % 2)
     + 8 * (((i \div 8) + (j \div 8)) % 2)]]

\* a ^ b on int32 operands, digit by digit; the top digit carries the sign
Xor32[a \in Int, b \in Int] ==
  LET d(k) == NibbleXor[(a \div (16^k)) % 16][(b \div (16^k)) % 16]
      top == IF d(7) >= 8 THEN d(7) - 16 ELSE d(7)
  IN  d(0) + 16 * d(1) + (16^2) * d(2) + (16^3) * d(3) + (16^4) * d(4)
      + (16^5) * d(5) + (16^6) * d(6) + (16^7) * top

\* (x << k) | 0 for 1 <= k <= 30
Shl32[x \in Int, k \in 1..30] ==
  LET low == x % (2^(31 - k))
      top == (x \div (2^(31 - k))) % 2
  IN  IF top = 1 THEN (low * (2^k) - 2^30) - 2^30 ELSE low * (2^k)

\* x >>> k for 1 <= k <= 31 (the result is below 2^31)
UShr32[x \in Int, k \in 1..31] == (x \div (2^k)) % (2^(32 - k))

\* (x + y) wrapped to 32 bits
Add32[x \in Int, y \in Int] ==
  LET slo == (x % Two16) + (y % Two16)
      shi == ((x \div Two16) + (y \div Two16) + (slo \div Two16)) % Two16
  IN  (IF shi >= 2^15 THEN shi - Two16 ELSE shi) * Two16 + (slo % Two16)

\* Math.imul(a, b): the low 32 bits of the product, from the 16-bit halves of a
\* and the bytes of b (partial products that fall above bit 31 are dropped)
Imul[a \in Int, b \in Int] ==
  LET al == a % Two16
      ah == (a \div Two16) % Two16
      b0 == b % Two8
      b1 == (b \div Two8) % Two8
      b2 == (b \div Two16) % Two8
      b3 == (b \div (2^24)) % Two8
  IN  Add32[al * b0,
      Add32[Shl32[al * b1, 8],
      Add32[Shl32[al * b2, 16],
      Add32[Shl32[al * b3, 24],
      Add32[Shl32[ah * b0, 16], Shl32[ah * b1, 24]]]]]]

\* x ^ (x << k), x ^ (x >>> k) and (x + (x << k)) wrapped to 32 bits
XorShl[x \in Int, k \in 1..30] == Xor32[x, Shl32[x, k]]
XorShr[x \in Int, k \in 1..31] == Xor32[x, UShr32[x, k]]
AddShl[x \in Int, k \in 1..30] == Add32[x, Shl32[x, k]]

\* one xorshift32 round: x ^= x << 13; x ^= x >>> 17; x ^= x << 5; x |= 0
XorShiftRound[x \in Int] == XorShl[XorShr[XorShl[x, 13], 17], 5]

\* the generator states x_1 .. x_n that follow x0 (`xs` grows by one round a pass)
RECURSIVE XorShiftStream(_, _, _)
XorShiftStream(xs, x0, n) ==
  IF Len(xs) = n THEN xs
  ELSE XorShiftStream(
         Append(xs, XorShiftRound[IF Len(xs) = 0 THEN x0 ELSE xs[Len(xs)]]), x0, n)

-----------------------------------------------------------------------------
(* Fixed-point model of the doubles *)

Q == 1000 * 1000
K == 10^3

Abs(a) == IF a < 0 THEN -a ELSE a
Sgn(a) == IF a < 0 THEN -1 ELSE 1
Max[a \in Int, b \in Int] == IF a > b THEN a ELSE b
Min[a \in Int, b \in Int] == IF a < b THEN a ELSE b

\* a / n for a double a and a positive integer n
DivInt[a \in Int, n \in Nat \ {0}] == Sgn(a) * (Abs(a) \div n)

\* a * b for doubles a, b, by limbs of 1000 so that no partial product overflows
MulQ[a \in Int, b \in Int] ==
  LET ah == Abs(a) \div K
      al == Abs(a) % K
      bh == Abs(b) \div K
      bl == Abs(b) % K
      t1 == ah * bl
      t2 == al * bh
      c1 == (al * bl) \div K
      mid == (t1 \div K) + (t2 \div K) + (((t1 % K) + (t2 % K) + c1) \div K)
  IN  Sgn(a) * Sgn(b) * (ah * bh + mid)

\* long division: n further decimal digits of r / b appended to q
RECURSIVE DivDigits(_, _, _, _)
DivDigits(q, r, b, n) ==
  IF n = 0 THEN q
  ELSE DivDigits(q * 10 + ((r * 10) \div b), (r * 10) % b, b, n - 1)

\* a / b for doubles a, b (b # 0)
DivQ[a \in Int, b \in Int \ {0}] ==
  Sgn(a) * Sgn(b) * DivDigits(Abs(a) \div Abs(b), Abs(a) % Abs(b), Abs(b), 6)

\* the largest r in lo..hi with r*r <= v
RECURSIVE IsqrtIn(_, _, _)
IsqrtIn(v, lo, hi) ==
  IF lo = hi THEN lo
  ELSE IF ((lo + hi + 1) \div 2) * ((lo + hi + 1) \div 2) <= v
       THEN IsqrtIn(v, (lo + hi + 1) \div 2, hi)
       ELSE IsqrtIn(v, lo, ((lo + hi + 1) \div 2) - 1)

\* the largest d in lo..hi with (1000 r + d)^2 <= 10^6 v, where w = v - r*r
RECURSIVE SqrtFrac(_, _, _, _)
SqrtFrac(r, w, lo, hi) ==
  IF lo = hi THEN lo
  ELSE IF 2 * r * ((lo + hi + 1) \div 2)
          + ((((lo + hi + 1) \div 2) * ((lo + hi + 1) \div 2) + K - 1) \div K) <= K * w
       THEN SqrtFrac(r, w, (lo + hi + 1) \div 2, hi)
       ELSE SqrtFrac(r, w, lo, ((lo + hi + 1) \div 2) - 1)

\* Math.sqrt(v) for a double v >= 0
SqrtQ[v \in Nat] ==
  LET r == IsqrtIn(v, 0, 46340)
  IN  K * r + SqrtFrac(r, v - r * r, 0, K - 1)

\* (x >>> 0) / 0xffffffff : the uint32 of x over 2^32 - 1, by 16-bit limbs
RndOf[x \in Int] ==
  LET l0 == x % Two16
      l1 == (x \div Two16) % Two16
      \* times 1000
      a0 == l0 * K
      a1 == l1 * K + (a0 \div Two16)
      m0 == a0 % Two16
      m1 == a1 % Two16
      m2 == a1 \div Two16
      \* times 1000 again
      b0 == m0 * K
      b1 == m1 * K + (b0 \div Two16)
      b2 == m2 * K + (b1 \div Two16)
      r0 == b0 % Two16
      r1 == b1 % Two16
      q  == b2                     \* floor(10^6 u / 2^32)
      s  == r0 + q
      shi == r1 + (s \div Two16)
      slo == s % Two16
  IN  IF shi > Two16 - 1 \/ (shi = Two16 - 1 /\ slo >= Two16 - 1) THEN q + 1 ELSE q

\* ((t * 1000003) | 0) for a double t: the product truncated to an integer
\* (|t| stays below 2^31 / 1.000003 in every state the model reaches, so the
\* wrap of | 0 is the identity)
TimesPrimeToInt32[t \in Int] ==
  LET whole == Abs(t) \div Q
      frac  == Abs(t) % Q
      \* |t| * 1.000003 = |t| + 3 |t| / 10^6
      scaled == Abs(t) + 3 * whole + ((3 * frac) \div Q)
  IN  Sgn(t) * scaled

\* Math.max(lo, Math.min(hi, v))
Clamp[v \in Int, lo \in Int, hi \in Int] == Max[lo, Min[hi, v]]

-----------------------------------------------------------------------------
(* Strings: number formatting used by formatSummary and makeInstances *)

HexDigits == <<"0", "1", "2", "3", "4", "5", "6", "7", "8", "9",
               "a", "b", "c", "d", "e", "f">>

\* n.toString(16) for an integer n >= 0
RECURSIVE ToHex(_)
ToHex(n) == IF n < 16 THEN HexDigits[n + 1] ELSE ToHex(n \div 16) \o HexDigits[(n % 16) + 1]

\* s.padStart(2, "0")
PadStart2(s) == IF Len(s) >= 2 THEN s ELSE IF Len(s) = 1 THEN "0" \o s ELSE "00"

\* the digits after the decimal point, zero-filled on the left
RECURSIVE PadZeros(_, _)
PadZeros(s, width) == IF Len(s) >= width THEN s ELSE PadZeros("0" \o s, width)

PosInf == 2147483647
NegInf == -2147483647

\* a.toFixed(6)
ToFixed6[a \in Int] ==
  IF a = PosInf THEN "Infinity"
  ELSE IF a = NegInf THEN "-Infinity"
  ELSE (IF a < 0 THEN "-" ELSE "") \o ToString(Abs(a) \div Q) \o "."
       \o PadZeros(ToString(Abs(a) % Q), 6)

\* lines.map((s, i) => i.toString(16).padStart(2, "0") + "|" + s).join("\n")
RECURSIVE DecorateJoin(_, _)
DecorateJoin(lines, i) ==
  IF i > Len(lines) THEN ""
  ELSE (IF i > 1 THEN "\n" ELSE "") \o PadStart2(ToHex(i - 1)) \o "|" \o lines[i]
       \o DecorateJoin(lines, i + 1)

\* the char codes tag.charCodeAt(0 ..) of the tags the model uses
CharCodes(tag) ==
  CASE tag = "alpha" -> <<97, 108, 112, 104, 97>>
    [] tag = "beta"  -> <<98, 101, 116, 97>>
    [] tag = "gamma" -> <<103, 97, 109, 109, 97>>
    [] OTHER -> <<>>

\* numeric literals of the kernel
EPSILON == 1
FnvBase == -2128831035
FnvPrime == 16777619
MixA == -2048144777
MixB == -2048144789
MixC == -1028477387
ScrambleSeed == -1831433054

\* min, max and sum loops over an array
RECURSIVE SumOf(_, _)
SumOf(vals, n) == IF n = 0 THEN 0 ELSE SumOf(vals, n - 1) + vals[n]

RECURSIVE MinOf(_, _)
MinOf(vals, n) ==
  IF n = 0 THEN PosInf ELSE Min[MinOf(vals, n - 1), vals[n]]

RECURSIVE MaxOf(_, _)
MaxOf(vals, n) ==
  IF n = 0 THEN NegInf ELSE Max[MaxOf(vals, n - 1), vals[n]]

-----------------------------------------------------------------------------
(* heavyLogic: the shared functions over a ThinState                       *)
(*   [id, name, values, bias, scale, createdAt, tag]                       *)
(* `vals` is the content of the array state.values refers to.              *)

\* hs is the trace of `hash`: hs[k] is its value before loop pass k
doChecksum(state, vals) ==
  LET RECURSIVE fold(_)
      fold(hs) ==
        IF Len(hs) = Len(vals) + 1 THEN hs[Len(hs)]
        ELSE fold(Append(hs,
               Imul[Xor32[hs[Len(hs)],
                          TimesPrimeToInt32[MulQ[vals[Len(hs)], state.scale] + state.bias]],
                    FnvPrime]))
      h2 == Imul[Xor32[fold(<<FnvBase>>), state.id], FnvPrime]
      h3 == Imul[Xor32[h2, Len(state.name)], FnvPrime]
      h4 == Imul[Xor32[h3, state.createdAt], MixA]
      codes == CharCodes(state.tag)
      RECURSIVE mix(_)
      mix(hs) ==
        IF Len(hs) = Len(codes) + 1 THEN hs[Len(hs)]
        ELSE mix(Append(hs,
               XorShr[AddShl[Xor32[hs[Len(hs)], codes[Len(hs)]], 13], 7]))
  IN  XorShr[Imul[XorShr[Imul[XorShr[mix(<<h4>>), 16], MixB], 13], MixC], 16]

doNormalizeInPlace(state, vals) ==
  LET n == Len(vals)
      mean == IF n > 0 THEN DivInt[SumOf(vals, n), n] ELSE 0
      RECURSIVE sq(_)
      sq(i) == IF i = 0 THEN 0 ELSE sq(i - 1) + MulQ[vals[i] - mean, vals[i] - mean]
      variance == IF n > 1 THEN DivInt[sq(n), n - 1] ELSE 0
      std == IF variance > 0 THEN SqrtQ[variance] ELSE Q
      clamped(i) == Clamp[DivQ[vals[i] - mean, std + EPSILON], -8 * Q, 8 * Q]
  IN  [obj |-> [state EXCEPT
                  !.bias = MulQ[state.bias, 900000] + MulQ[mean, 100000],
                  !.scale = MulQ[state.scale, 900000]
                            + MulQ[DivQ[Q, std + EPSILON], 100000]],
       vals |-> [i \in 1..n |-> clamped(i)],
       ret |-> "undefined"]

doRollingAverage(state, vals, windowSize) ==
  LET n == Len(vals)
      w == Max[1, Min[windowSize, Max[1, n]]]
      RECURSIVE running(_)
      running(i) ==
        IF i = 0 THEN 0
        ELSE running(i - 1) + vals[i] - (IF i - 1 >= w THEN vals[i - w] ELSE 0)
      count(i) == IF i < w THEN i ELSE w
      output(i) == DivInt[running(i), count(i)]
  IN  [obj |-> state,
       vals |-> vals,
       ret |-> [i \in 1..n |-> MulQ[output(i), state.scale] + MulQ[state.bias, 1000]]]

\* a formatSummary that clears the bias it has printed (used to test that the
\* read-only operations write nothing)
doFormatSummary_clearsBias(state, vals) ==
  [obj |-> [state EXCEPT !.bias = 0], vals |-> vals, ret |-> ""]

doFormatSummary(state, vals) ==
  LET n == Len(vals)
      min == MinOf(vals, n)
      max == MaxOf(vals, n)
      mean == IF n # 0 THEN DivInt[SumOf(vals, n), n] ELSE 0
      ck == doChecksum(state, vals)
      lines == << "id=" \o ToString(state.id),
                  "name=" \o state.name,
                  "tag=" \o state.tag,
                  "len=" \o ToString(n),
                  "bias=" \o ToFixed6[state.bias],
                  "scale=" \o ToFixed6[state.scale],
                  "min=" \o ToFixed6[min],
                  "max=" \o ToFixed6[max],
                  "mean=" \o ToFixed6[mean],
                  "checksum=" \o ToString(ck) >>
  IN  [obj |-> state, vals |-> vals, ret |-> DecorateJoin(lines, 1)]

\* a scramble that starts the generator from the seed as given, 0 included
\* (used to test the replacement of seed 0)
doScramble_keepsZeroSeed(state, vals, seed) ==
  LET n == Len(vals)
      xs == XorShiftStream(<<>>, seed, 8 + n)
      x(i) == xs[8 + i]
      delta(i) == (IF x(i) % 2 = 0 THEN 1 ELSE -1)
                  * (MulQ[RndOf[x(i)], 10000] + ((i - 1) % 7) * 100)
  IN  [obj |-> [state EXCEPT
                  !.bias = state.bias + ((x(n) % Two8) - 128),
                  !.scale = MulQ[state.scale, Q + ((UShr32[x(n), 8] % Two8) - 128)]],
       vals |-> [i \in 1..n |-> vals[i] + delta(i)],
       ret |-> "undefined"]

doScramble(state, vals, seed) ==
  LET n == Len(vals)
      \* the 8 warm-up rounds, then one round per value
      xs == XorShiftStream(<<>>, IF seed # 0 THEN seed ELSE ScrambleSeed, 8 + n)
      x(i) == xs[8 + i]
      delta(i) == (IF x(i) % 2 = 0 THEN 1 ELSE -1)
                  * (MulQ[RndOf[x(i)], 10000] + ((i - 1) % 7) * 100)
  IN  [obj |-> [state EXCEPT
                  !.bias = state.bias + ((x(n) % Two8) - 128),
                  !.scale = MulQ[state.scale, Q + ((UShr32[x(n), 8] % Two8) - 128)]],
       vals |-> [i \in 1..n |-> vals[i] + delta(i)],
       ret |-> "undefined"]

\* a step count clamped to at least 0 (used to test the clamp)
simulateSteps_fromZero(iterations) == Max[0, iterations]

\* Math.max(1, iterations | 0), iterations an integer
simulateSteps(iterations) == Max[1, iterations]

\* a simulate whose temp buffer is one element short, so the copy-back loses
\* the last element (used to test the length invariant)
doSimulate_shortBuffer(state, vals, iterations) ==
  LET n == Len(vals)
      kept == [i \in 1..(IF n > 0 THEN n - 1 ELSE 0) |-> vals[i]]
  IN  [obj |-> state, vals |-> kept, ret |-> 0]

\* a simulate that writes each new value straight into the array, so index
\* i + 1 reads the value index i has just been given (used to test the buffer)
doSimulate_inPlace(state, vals, iterations) ==
  LET n == Len(vals)
      next(v, i) ==
        MulQ[v[i] + MulQ[DivInt[(IF i > 1 THEN v[i - 1] ELSE v[i]) + v[i]
                                + (IF i + 1 <= n THEN v[i + 1] ELSE v[i]), 3] - v[i],
                         250000],
             state.scale] + MulQ[state.bias, 100]
      RECURSIVE sweep(_, _, _)
      sweep(v, i, left) ==
        IF left = 0 THEN v
        ELSE IF i > n THEN sweep(v, 1, left - 1)
        ELSE sweep([v EXCEPT ![i] = next(v, i)], i + 1, left)
  IN  [obj |-> state,
       vals |-> IF n = 0 THEN vals ELSE sweep(vals, 1, Max[1, iterations]),
       ret |-> 0]

doSimulate(state, vals, iterations) ==
  LET steps == simulateSteps(iterations)
      n == Len(vals)
      \* one pass: temp is filled from the values of the previous pass
      temp(v, i) ==
        MulQ[v[i] + MulQ[DivInt[(IF i > 1 THEN v[i - 1] ELSE v[i]) + v[i]
                                + (IF i + 1 <= n THEN v[i + 1] ELSE v[i]), 3] - v[i],
                         250000],
             state.scale] + MulQ[state.bias, 100]
      RECURSIVE pass(_)
      \* vs is the trace of the array: vs[k] is its content after k - 1 passes
      pass(vs) ==
        IF Len(vs) = steps + 1 THEN vs[Len(vs)]
        ELSE pass(Append(vs, [i \in 1..n |-> temp(vs[Len(vs)], i)]))
      after == pass(<<vals>>)
      RECURSIVE energy(_)
      energy(i) ==
        IF i <= 1 THEN 0
        ELSE energy(i - 1) + MulQ[after[i] - after[i - 1], after[i] - after[i - 1]]
  IN  IF n = 0 THEN [obj |-> state, vals |-> vals, ret |-> 0]
      ELSE [obj |-> state, vals |-> after, ret |-> energy(n)]

-----------------------------------------------------------------------------
(* heavyClass: the methods of class HeavyThing, shared by its instances    *)
(*   this = [id, name, values, bias, scale, meta: [createdAt, tag]]        *)

\* hs is the trace of `hash`: hs[k] is its value before loop pass k
HeavyThing_checksum(this, vals) ==
  LET RECURSIVE fold(_)
      fold(hs) ==
        IF Len(hs) = Len(vals) + 1 THEN hs[Len(hs)]
        ELSE fold(Append(hs,
               Imul[Xor32[hs[Len(hs)],
                          TimesPrimeToInt32[MulQ[vals[Len(hs)], this.scale] + this.bias]],
                    FnvPrime]))
      h2 == Imul[Xor32[fold(<<FnvBase>>), this.id], FnvPrime]
      h3 == Imul[Xor32[h2, Len(this.name)], FnvPrime]
      h4 == Imul[Xor32[h3, this.meta.createdAt], MixA]
      codes == CharCodes(this.meta.tag)
      RECURSIVE mix(_)
      mix(hs) ==
        IF Len(hs) = Len(codes) + 1 THEN hs[Len(hs)]
        ELSE mix(Append(hs,
               XorShr[AddShl[Xor32[hs[Len(hs)], codes[Len(hs)]], 13], 7]))
  IN  XorShr[Imul[XorShr[Imul[XorShr[mix(<<h4>>), 16], MixB], 13], MixC], 16]

HeavyThing_normalizeInPlace(this, vals) ==
  LET n == Len(vals)
      mean == IF n > 0 THEN DivInt[SumOf(vals, n), n] ELSE 0
      RECURSIVE sq(_)
      sq(i) == IF i = 0 THEN 0 ELSE sq(i - 1) + MulQ[vals[i] - mean, vals[i] - mean]
      variance == IF n > 1 THEN DivInt[sq(n), n - 1] ELSE 0
      std == IF variance > 0 THEN SqrtQ[variance] ELSE Q
      clamped(i) == Clamp[DivQ[vals[i] - mean, std + EPSILON], -8 * Q, 8 * Q]
  IN  [obj |-> [this EXCEPT
                  !.bias = MulQ[this.bias, 900000] + MulQ[mean, 100000],
                  !.scale = MulQ[this.scale, 900000]
                            + MulQ[DivQ[Q, std + EPSILON], 100000]],
       vals |-> [i \in 1..n |-> clamped(i)],
       ret |-> "undefined"]

HeavyThing_rollingAverage(this, vals, windowSize) ==
  LET n == Len(vals)
      w == Max[1, Min[windowSize, Max[1, n]]]
      RECURSIVE running(_)
      running(i) ==
        IF i = 0 THEN 0
        ELSE running(i - 1) + vals[i] - (IF i - 1 >= w THEN vals[i - w] ELSE 0)
      count(i) == IF i < w THEN i ELSE w
      output(i) == DivInt[running(i), count(i)]
  IN  [obj |-> this,
       vals |-> vals,
       ret |-> [i \in 1..n |-> MulQ[output(i), this.scale] + MulQ[this.bias, 1000]]]

HeavyThing_formatSummary(this, vals) ==
  LET n == Len(vals)
      min == MinOf(vals, n)
      max == MaxOf(vals, n)
      mean == IF n # 0 THEN DivInt[SumOf(vals, n), n] ELSE 0
      ck == HeavyThing_checksum(this, vals)
      lines == << "id=" \o ToString(this.id),
                  "name=" \o this.name,
                  "tag=" \o this.meta.tag,
                  "len=" \o ToString(n),
                  "bias=" \o ToFixed6[this.bias],
                  "scale=" \o ToFixed6[this.scale],
                  "min=" \o ToFixed6[min],
                  "max=" \o ToFixed6[max],
                  "mean=" \o ToFixed6[mean],
                  "checksum=" \o ToString(ck) >>
  IN  [obj |-> this, vals |-> vals, ret |-> DecorateJoin(lines, 1)]

HeavyThing_scramble(this, vals, seed) ==
  LET n == Len(vals)
      \* the 8 warm-up rounds, then one round per value
      xs == XorShiftStream(<<>>, IF seed # 0 THEN seed ELSE ScrambleSeed, 8 + n)
      x(i) == xs[8 + i]
      delta(i) == (IF x(i) % 2 = 0 THEN 1 ELSE -1)
                  * (MulQ[RndOf[x(i)], 10000] + ((i - 1) % 7) * 100)
  IN  [obj |-> [this EXCEPT
                  !.bias = this.bias + ((x(n) % Two8) - 128),
                  !.scale = MulQ[this.scale, Q + ((UShr32[x(n), 8] % Two8) - 128)]],
       vals |-> [i \in 1..n |-> vals[i] + delta(i)],
       ret |-> "undefined"]

HeavyThing_simulate(this, vals, iterations) ==
  LET steps == Max[1, iterations]
      n == Len(vals)
      \* one pass: temp is filled from the values of the previous pass
      temp(v, i) ==
        MulQ[v[i] + MulQ[DivInt[(IF i > 1 THEN v[i - 1] ELSE v[i]) + v[i]
                                + (IF i + 1 <= n THEN v[i + 1] ELSE v[i]), 3] - v[i],
                         250000],
             this.scale] + MulQ[this.bias, 100]
      RECURSIVE pass(_)
      \* vs is the trace of the array: vs[k] is its content after k - 1 passes
      pass(vs) ==
        IF Len(vs) = steps + 1 THEN vs[Len(vs)]
        ELSE pass(Append(vs, [i \in 1..n |-> temp(vs[Len(vs)], i)]))
      after == pass(<<vals>>)
      RECURSIVE energy(_)
      energy(i) ==
        IF i <= 1 THEN 0
        ELSE energy(i - 1) + MulQ[after[i] - after[i - 1], after[i] - after[i - 1]]
  IN  IF n = 0 THEN [obj |-> this, vals |-> vals, ret |-> 0]
      ELSE [obj |-> this, vals |-> after, ret |-> energy(n)]

-----------------------------------------------------------------------------
(* heavyFactory: the closures createHeavyThing builds for one instance     *)
(*   env = [_id, _name, _values, _bias, _scale, _meta: [createdAt, tag]],  *)
(*   the variables the closures capture                                    *)

\* hs is the trace of `hash`: hs[k] is its value before loop pass k
createHeavyThing_checksum(env, vals) ==
  LET RECURSIVE fold(_)
      fold(hs) ==
        IF Len(hs) = Len(vals) + 1 THEN hs[Len(hs)]
        ELSE fold(Append(hs,
               Imul[Xor32[hs[Len(hs)],
                          TimesPrimeToInt32[MulQ[vals[Len(hs)], env._scale] + env._bias]],
                    FnvPrime]))
      h2 == Imul[Xor32[fold(<<FnvBase>>), env._id], FnvPrime]
      h3 == Imul[Xor32[h2, Len(env._name)], FnvPrime]
      h4 == Imul[Xor32[h3, env._meta.createdAt], MixA]
      codes == CharCodes(env._meta.tag)
      RECURSIVE mix(_)
      mix(hs) ==
        IF Len(hs) = Len(codes) + 1 THEN hs[Len(hs)]
        ELSE mix(Append(hs,
               XorShr[AddShl[Xor32[hs[Len(hs)], codes[Len(hs)]], 13], 7]))
  IN  XorShr[Imul[XorShr[Imul[XorShr[mix(<<h4>>), 16], MixB], 13], MixC], 16]

createHeavyThing_normalizeInPlace(env, vals) ==
  LET n == Len(vals)
      mean == IF n > 0 THEN DivInt[SumOf(vals, n), n] ELSE 0
      RECURSIVE sq(_)
      sq(i) == IF i = 0 THEN 0 ELSE sq(i - 1) + MulQ[vals[i] - mean, vals[i] - mean]
      variance == IF n > 1 THEN DivInt[sq(n), n - 1] ELSE 0
      std == IF variance > 0 THEN SqrtQ[variance] ELSE Q
      clamped(i) == Clamp[DivQ[vals[i] - mean, std + EPSILON], -8 * Q, 8 * Q]
  IN  [obj |-> [env EXCEPT
                  !._bias = MulQ[env._bias, 900000] + MulQ[mean, 100000],
                  !._scale = MulQ[env._scale, 900000]
                            + MulQ[DivQ[Q, std + EPSILON], 100000]],
       vals |-> [i \in 1..n |-> clamped(i)],
       ret |-> "undefined"]

createHeavyThing_rollingAverage(env, vals, windowSize) ==
  LET n == Len(vals)
      w == Max[1, Min[windowSize, Max[1, n]]]
      RECURSIVE running(_)
      running(i) ==
        IF i = 0 THEN 0
        ELSE running(i - 1) + vals[i] - (IF i - 1 >= w THEN vals[i - w] ELSE 0)
      count(i) == IF i < w THEN i ELSE w
      output(i) == DivInt[running(i), count(i)]
  IN  [obj |-> env,
       vals |-> vals,
       ret |-> [i \in 1..n |-> MulQ[output(i), env._scale] + MulQ[env._bias, 1000]]]

createHeavyThing_formatSummary(env, vals) ==
  LET n == Len(vals)
      min == MinOf(vals, n)
      max == MaxOf(vals, n)
      mean == IF n # 0 THEN DivInt[SumOf(vals, n), n] ELSE 0
      ck == createHeavyThing_checksum(env, vals)
      lines == << "id=" \o ToString(env._id),
                  "name=" \o env._name,
                  "tag=" \o env._meta.tag,
                  "len=" \o ToString(n),
                  "bias=" \o ToFixed6[env._bias],
                  "scale=" \o ToFixed6[env._scale],
                  "min=" \o ToFixed6[min],
                  "max=" \o ToFixed6[max],
                  "mean=" \o ToFixed6[mean],
                  "checksum=" \o ToString(ck) >>
  IN  [obj |-> env, vals |-> vals, ret |-> DecorateJoin(lines, 1)]

createHeavyThing_scramble(env, vals, seed) ==
  LET n == Len(vals)
      \* the 8 warm-up rounds, then one round per value
      xs == XorShiftStream(<<>>, IF seed # 0 THEN seed ELSE ScrambleSeed, 8 + n)
      x(i) == xs[8 + i]
      delta(i) == (IF x(i) % 2 = 0 THEN 1 ELSE -1)
                  * (MulQ[RndOf[x(i)], 10000] + ((i - 1) % 7) * 100)
  IN  [obj |-> [env EXCEPT
                  !._bias = env._bias + ((x(n) % Two8) - 128),
                  !._scale = MulQ[env._scale, Q + ((UShr32[x(n), 8] % Two8) - 128)]],
       vals |-> [i \in 1..n |-> vals[i] + delta(i)],
       ret |-> "undefined"]

createHeavyThing_simulate(env, vals, iterations) ==
  LET steps == Max[1, iterations]
      n == Len(vals)
      \* one pass: temp is filled from the values of the previous pass
      temp(v, i) ==
        MulQ[v[i] + MulQ[DivInt[(IF i > 1 THEN v[i - 1] ELSE v[i]) + v[i]
                                + (IF i + 1 <= n THEN v[i + 1] ELSE v[i]), 3] - v[i],
                         250000],
             env._scale] + MulQ[env._bias, 100]
      RECURSIVE pass(_)
      \* vs is the trace of the array: vs[k] is its content after k - 1 passes
      pass(vs) ==
        IF Len(vs) = steps + 1 THEN vs[Len(vs)]
        ELSE pass(Append(vs, [i \in 1..n |-> temp(vs[Len(vs)], i)]))
      after == pass(<<vals>>)
      RECURSIVE energy(_)
      energy(i) ==
        IF i <= 1 THEN 0
        ELSE energy(i - 1) + MulQ[after[i] - after[i - 1], after[i] - after[i - 1]]
  IN  IF n = 0 THEN [obj |-> env, vals |-> vals, ret |-> 0]
      ELSE [obj |-> env, vals |-> after, ret |-> energy(n)]

-----------------------------------------------------------------------------
(* heavyFactoryThin: the wrappers of a thin instance, each passing the     *)
(* instance's state record to the shared function                          *)
(*   self = [state: ThinState]                                             *)

Rewrap(r) == [obj |-> [state |-> r.obj], vals |-> r.vals, ret |-> r.ret]

createHeavyThingThin_checksum(self, vals) == doChecksum(self.state, vals)
createHeavyThingThin_normalizeInPlace(self, vals) ==
  Rewrap(doNormalizeInPlace(self.state, vals))
createHeavyThingThin_rollingAverage(self, vals, windowSize) ==
  Rewrap(doRollingAverage(self.state, vals, windowSize))
createHeavyThingThin_formatSummary(self, vals) ==
  Rewrap(doFormatSummary(self.state, vals))
createHeavyThingThin_scramble(self, vals, seed) ==
  Rewrap(doScramble(self.state, vals, seed))
createHeavyThingThin_simulate(self, vals, iterations) ==
  Rewrap(doSimulate(self.state, vals, iterations))

-----------------------------------------------------------------------------
(* Construction.  `values` is the content of the caller's array, `ref` the *)
(* reference of the array Array.from allocates, `now` the value Date.now() *)
(* returns.  The result is the object and the content of its new array.    *)

\* Array.from(values): a new array with the same elements
ArrayFrom(values) == [i \in 1..Len(values) |-> values[i]]

HeavyThing_constructor(id, name, values, bias, scale, tag, ref, now) ==
  [obj |-> [id |-> id, name |-> name, values |-> ref, bias |-> bias,
            scale |-> scale, meta |-> [createdAt |-> now, tag |-> tag]],
   vals |-> ArrayFrom(values)]

createHeavyThing(id, name, values, bias, scale, tag, ref, now) ==
  [obj |-> [_id |-> id, _name |-> name, _values |-> ref, _bias |-> bias,
            _scale |-> scale, _meta |-> [createdAt |-> now, tag |-> tag]],
   vals |-> ArrayFrom(values)]

createHeavyThingThin(id, name, values, bias, scale, tag, ref, now) ==
  [obj |-> [state |-> [id |-> id, name |-> name, values |-> ref, bias |-> bias,
                       scale |-> scale, createdAt |-> now, tag |-> tag]],
   vals |-> ArrayFrom(values)]

-----------------------------------------------------------------------------
(* The HeavyThingLike interface: an instance is [approach, obj]; a call is *)
(* [op, arg].  Each accessor and method goes to the code of the approach   *)
(* that built the instance.                                                *)

\* the dispatch on the strategy selector: `approach` other than "class" and
\* "factory" goes to the thin factory.  inst.approach names the code that built
\* the instance.
NewInstance(approach, id, name, values, bias, scale, tag, ref, now) ==
  CASE approach = "class" ->
         [inst |-> [approach |-> "class",
                    obj |-> HeavyThing_constructor(id, name, values, bias, scale, tag, ref, now).obj],
          vals |-> HeavyThing_constructor(id, name, values, bias, scale, tag, ref, now).vals]
    [] approach = "factory" ->
         [inst |-> [approach |-> "factory",
                    obj |-> createHeavyThing(id, name, values, bias, scale, tag, ref, now).obj],
          vals |-> createHeavyThing(id, name, values, bias, scale, tag, ref, now).vals]
    [] OTHER ->
         [inst |-> [approach |-> "factory-thin",
                    obj |-> createHeavyThingThin(id, name, values, bias, scale, tag, ref, now).obj],
          vals |-> createHeavyThingThin(id, name, values, bias, scale, tag, ref, now).vals]

\* an instance that keeps the array it was given, array 1 of the heap (used to
\* test the copy)
ValuesRef_callersArray(inst) == 1

\* the reference of the instance's own array
ValuesRef(inst) ==
  CASE inst.approach = "class" -> inst.obj.values
    [] inst.approach = "factory" -> inst.obj._values
    [] OTHER -> inst.obj.state.values

GetId(inst) ==
  CASE inst.approach = "class" -> inst.obj.id
    [] inst.approach = "factory" -> inst.obj._id
    [] OTHER -> inst.obj.state.id

GetName(inst) ==
  CASE inst.approach = "class" -> inst.obj.name
    [] inst.approach = "factory" -> inst.obj._name
    [] OTHER -> inst.obj.state.name

SetName(inst, v) ==
  CASE inst.approach = "class" -> [inst EXCEPT !.obj.name = v]
    [] inst.approach = "factory" -> [inst EXCEPT !.obj._name = v]
    [] OTHER -> [inst EXCEPT !.obj.state.name = v]

\* the private fields, read for the properties only
BiasOf(inst) ==
  CASE inst.approach = "class" -> inst.obj.bias
    [] inst.approach = "factory" -> inst.obj._bias
    [] OTHER -> inst.obj.state.bias

ScaleOf(inst) ==
  CASE inst.approach = "class" -> inst.obj.scale
    [] inst.approach = "factory" -> inst.obj._scale
    [] OTHER -> inst.obj.state.scale

CreatedAtOf(inst) ==
  CASE inst.approach = "class" -> inst.obj.meta.createdAt
    [] inst.approach = "factory" -> inst.obj._meta.createdAt
    [] OTHER -> inst.obj.state.createdAt

TagOf(inst) ==
  CASE inst.approach = "class" -> inst.obj.meta.tag
    [] inst.approach = "factory" -> inst.obj._meta.tag
    [] OTHER -> inst.obj.state.tag

Checksum(inst, vals) ==
  CASE inst.approach = "class" -> HeavyThing_checksum(inst.obj, vals)
    [] inst.approach = "factory" -> createHeavyThing_checksum(inst.obj, vals)
    [] OTHER -> createHeavyThingThin_checksum(inst.obj, vals)

\* the other methods: [obj, vals, ret] of the call on the instance's object
ClassMethod(obj, vals, call) ==
  CASE call.op = "normalizeInPlace" -> HeavyThing_normalizeInPlace(obj, vals)
    [] call.op = "rollingAverage" -> HeavyThing_rollingAverage(obj, vals, call.arg)
    [] call.op = "formatSummary" -> HeavyThing_formatSummary(obj, vals)
    [] call.op = "scramble" -> HeavyThing_scramble(obj, vals, call.arg)
    [] call.op = "simulate" -> HeavyThing_simulate(obj, vals, call.arg)

FactoryMethod(obj, vals, call) ==
  CASE call.op = "normalizeInPlace" -> createHeavyThing_normalizeInPlace(obj, vals)
    [] call.op = "rollingAverage" -> createHeavyThing_rollingAverage(obj, vals, call.arg)
    [] call.op = "formatSummary" -> createHeavyThing_formatSummary(obj, vals)
    [] call.op = "scramble" -> createHeavyThing_scramble(obj, vals, call.arg)
    [] call.op = "simulate" -> createHeavyThing_simulate(obj, vals, call.arg)

ThinMethod(obj, vals, call) ==
  CASE call.op = "normalizeInPlace" -> createHeavyThingThin_normalizeInPlace(obj, vals)
    [] call.op = "rollingAverage" -> createHeavyThingThin_rollingAverage(obj, vals, call.arg)
    [] call.op = "formatSummary" -> createHeavyThingThin_formatSummary(obj, vals)
    [] call.op = "scramble" -> createHeavyThingThin_scramble(obj, vals, call.arg)
    [] call.op = "simulate" -> createHeavyThingThin_simulate(obj, vals, call.arg)

MethodResult(inst, vals, call) ==
  CASE inst.approach = "class" -> ClassMethod(inst.obj, vals, call)
    [] inst.approach = "factory" -> FactoryMethod(inst.obj, vals, call)
    [] OTHER -> ThinMethod(inst.obj, vals, call)

\* the instance with the object a method left behind
Outcome(inst, r) ==
  [inst |-> [inst EXCEPT !.obj = r.obj], vals |-> r.vals, ret |-> r.ret]

\* a call on an instance: the instance and its array after it, and what it returns
Invoke(inst, vals, call) ==
  CASE call.op = "checksum" ->
         [inst |-> inst, vals |-> vals, ret |-> Checksum(inst, vals)]
    [] call.op = "setName" ->
         [inst |-> SetName(inst, call.arg), vals |-> vals, ret |-> "undefined"]
    [] OTHER -> Outcome(inst, MethodResult(inst, vals, call))

-----------------------------------------------------------------------------
(* The doubles of doRollingAverage, bit for bit: IEEE-754 binary64 with     *)
(* round-to-nearest-even, for finite normal numbers and zero.  A natural   *)
(* number is a sequence of limbs of LimbBits bits, least significant       *)
(* first, without a leading zero limb; a double is [sign, exp, man], its   *)
(* value sign * man * 2^exp, man of exactly Precision bits or empty for    *)
(* zero.                                                                   *)

LimbBits == 2 * 7
Precision == 52 + 1

Limb[a \in Seq(Nat), i \in Int] == IF i >= 1 /\ i <= Len(a) THEN a[i] ELSE 0

BigTrim[a \in Seq(Nat)] ==
  IF a = <<>> THEN <<>>
  ELSE IF a[Len(a)] # 0 THEN a
  ELSE BigTrim[SubSeq(a, 1, Len(a) - 1)]

\* a + b
BigAdd[a \in Seq(Nat), b \in Seq(Nat)] ==
  LET from[i \in Nat, c \in Nat] ==
        IF i > Len(a) /\ i > Len(b) THEN (IF c = 0 THEN <<>> ELSE <<c>>)
        ELSE <<(Limb[a, i] + Limb[b, i] + c) % 2 ^ LimbBits>>
             \o from[i + 1, (Limb[a, i] + Limb[b, i] + c) \div 2 ^ LimbBits]
  IN  from[1, 0]

\* a - b for a >= b
BigSub[a \in Seq(Nat), b \in Seq(Nat)] ==
  LET from[i \in Nat, c \in Nat] ==
        IF i > Len(a) THEN <<>>
        ELSE <<(Limb[a, i] - Limb[b, i] - c) % 2 ^ LimbBits>>
             \o from[i + 1, IF Limb[a, i] - Limb[b, i] - c < 0 THEN 1 ELSE 0]
  IN  BigTrim[from[1, 0]]

\* a < b
BigLess[a \in Seq(Nat), b \in Seq(Nat)] ==
  LET from[i \in Nat] ==
        IF i = 0 THEN FALSE
        ELSE IF a[i] # b[i] THEN a[i] < b[i]
        ELSE from[i - 1]
  IN  IF Len(a) # Len(b) THEN Len(a) < Len(b) ELSE from[Len(a)]

\* a * 2^k
BigShl[a \in Seq(Nat), k \in Nat] ==
  BigTrim[[i \in 1..(Len(a) + (k \div LimbBits) + 1) |->
             IF i <= k \div LimbBits THEN 0
             ELSE ((Limb[a, i - (k \div LimbBits)] * 2 ^ (k % LimbBits)) % 2 ^ LimbBits)
                  + ((Limb[a, i - (k \div LimbBits) - 1] * 2 ^ (k % LimbBits))
                     \div 2 ^ LimbBits)]]

\* a \div 2^k
BigShr[a \in Seq(Nat), k \in Nat] ==
  BigTrim[[i \in 1..Max[0, Len(a) - (k \div LimbBits)] |->
             (Limb[a, i + (k \div LimbBits)] \div 2 ^ (k % LimbBits))
             + (Limb[a, i + (k \div LimbBits) + 1] % 2 ^ (k % LimbBits))
               * 2 ^ (LimbBits - (k % LimbBits))]]

\* bit k (from 0) of a
BigBit[a \in Seq(Nat), k \in Nat] ==
  (Limb[a, (k \div LimbBits) + 1] \div 2 ^ (k % LimbBits)) % 2

\* the number of bits of a
BitLen[a \in Seq(Nat)] ==
  IF a = <<>> THEN 0
  ELSE LimbBits * (Len(a) - 1)
       + (CHOOSE k \in 1..LimbBits : 2 ^ (k - 1) <= a[Len(a)] /\ a[Len(a)] < 2 ^ k)

\* a * b
BigMul[a \in Seq(Nat), b \in Seq(Nat)] ==
  LET \* the products that fall into limb k, from a[i] on
      col[k \in Nat, i \in Nat] ==
        IF i > Len(a) THEN 0
        ELSE Limb[a, i] * Limb[b, k + 1 - i] + col[k, i + 1]
      from[k \in Nat, c \in Nat] ==
        IF k > Len(a) + Len(b) THEN <<>>
        ELSE <<(col[k, 1] + c) % 2 ^ LimbBits>>
             \o from[k + 1, (col[k, 1] + c) \div 2 ^ LimbBits]
  IN  BigTrim[from[1, 0]]

\* long division: [q, r] with n = q * d + r, r < d
BigDivMod[n \in Seq(Nat), d \in Seq(Nat)] ==
  LET \* bits i down to stop of n brought down onto the remainder r and the
      \* quotient q
      bits[i \in Int, stop \in Int, r \in Seq(Nat), q \in Seq(Nat)] ==
        IF i < stop THEN [q |-> q, r |-> r]
        ELSE IF BigLess[BigAdd[BigShl[r, 1], BigTrim[<<BigBit[n, i]>>]], d]
             THEN bits[i - 1, stop,
                       BigAdd[BigShl[r, 1], BigTrim[<<BigBit[n, i]>>]], BigShl[q, 1]]
             ELSE bits[i - 1, stop,
                       BigSub[BigAdd[BigShl[r, 1], BigTrim[<<BigBit[n, i]>>]], d],
                       BigAdd[BigShl[q, 1], <<1>>]]
      \* limbs j down to 1 of n brought down, a limb at a time
      limbs[j \in Nat, qr \in [q : Seq(Nat), r : Seq(Nat)]] ==
        IF j = 0 THEN qr
        ELSE limbs[j - 1, bits[j * LimbBits - 1, (j - 1) * LimbBits, qr.r, qr.q]]
  IN  limbs[Len(n), [q |-> <<>>, r |-> <<>>]]

F64 == [sign : {-1, 1}, exp : Int, man : Seq(Nat)]

F64Zero == [sign |-> 1, exp |-> 0, man |-> <<>>]

\* sign * man * 2^exp rounded to the nearest double, ties to even
RoundF64[sign \in {-1, 1}, man \in Seq(Nat), exp \in Int] ==
  IF man = <<>> THEN F64Zero
  ELSE IF BitLen[man] <= Precision
  THEN [sign |-> sign, exp |-> exp - (Precision - BitLen[man]),
        man |-> BigShl[man, Precision - BitLen[man]]]
  ELSE LET k == BitLen[man] - Precision
           kept == BigShr[man, k]
           \* the bits dropped below the highest of them are all zero
           tie == BigShl[BigShr[man, k - 1], k - 1] = man
           up == /\ BigBit[man, k - 1] = 1
                 /\ (~tie \/ BigBit[kept, 0] = 1)
           r == IF up THEN BigAdd[kept, <<1>>] ELSE kept
       IN  IF BitLen[r] > Precision
           THEN [sign |-> sign, exp |-> exp + k + 1, man |-> BigShr[r, 1]]
           ELSE [sign |-> sign, exp |-> exp + k, man |-> r]

\* x + y
FAdd[x \in F64, y \in F64] ==
  IF x.man = <<>> THEN y
  ELSE IF y.man = <<>> THEN x
  ELSE LET e == Min[x.exp, y.exp]
           a == BigShl[x.man, x.exp - e]
           b == BigShl[y.man, y.exp - e]
       IN  IF x.sign = y.sign THEN RoundF64[x.sign, BigAdd[a, b], e]
           ELSE IF a = b THEN F64Zero
           ELSE IF BigLess[a, b] THEN RoundF64[y.sign, BigSub[b, a], e]
           ELSE RoundF64[x.sign, BigSub[a, b], e]

\* x - y
FSub[x \in F64, y \in F64] ==
  FAdd[x, IF y.man = <<>> THEN y ELSE [y EXCEPT !.sign = -y.sign]]

\* x * y
FMul[x \in F64, y \in F64] ==
  IF x.man = <<>> \/ y.man = <<>> THEN F64Zero
  ELSE RoundF64[x.sign * y.sign, BigMul[x.man, y.man], x.exp + y.exp]

\* x / y for y # 0: the quotient to 56 bits or more, its last bit set when
\* the division leaves a remainder
FDiv[x \in F64, y \in F64] ==
  IF x.man = <<>> THEN F64Zero
  ELSE LET qr == BigDivMod[BigShl[x.man, Precision + 3], y.man]
       IN  RoundF64[x.sign * y.sign,
                    BigAdd[BigShl[qr.q, 1], IF qr.r = <<>> THEN <<>> ELSE <<1>>],
                    x.exp - y.exp - (Precision + 3) - 1]

\* the double of a small natural number
FromInt[n \in Nat] == RoundF64[1, BigTrim[<<n>>], 0]

\* the doubles of the literals
Double ==
  [milli |-> [sign |-> 1, exp |-> -62, man |-> <<10748, 3014, 9437, 1048>>],   \* 0.001
   tenth |-> [sign |-> 1, exp |-> -56, man |-> <<6554, 9830, 6553, 1638>>],    \* 0.1
   fifth |-> [sign |-> 1, exp |-> -55, man |-> <<6554, 9830, 6553, 1638>>],    \* 0.2
   scale |-> [sign |-> 1, exp |-> -52, man |-> <<14418, 5242, 7864, 1044>>],   \* 1.02
   bias |-> [sign |-> 1, exp |-> -58, man |-> <<7864, 11796, 1310, 1966>>],    \* 0.03
   one |-> [sign |-> 1, exp |-> -52, man |-> <<0, 0, 0, 1024>>],               \* 1
   twoTo53 |-> [sign |-> 1, exp |-> 1, man |-> <<0, 0, 0, 1024>>]]             \* 2^53

\* doRollingAverage on doubles: state is [values, bias, scale], windowSize an
\* integer; the class and closure copies compute the same
doRollingAverage64(state, windowSize) ==
  LET n == Len(state.values)
      w == Max[1, Min[windowSize, Max[1, n]]]
      \* `running` after i passes of the first loop
      running[i \in Nat] ==
        IF i = 0 THEN F64Zero
        ELSE IF i - 1 >= w
        THEN FSub[FAdd[running[i - 1], state.values[i]], state.values[i - w]]
        ELSE FAdd[running[i - 1], state.values[i]]
  IN  [i \in 1..n |->
         FAdd[FMul[FDiv[running[i], FromInt[IF i < w THEN i ELSE w]], state.scale],
              FMul[state.bias, Double.milli]]]

-----------------------------------------------------------------------------
(* State *)

VARIABLES
  now,                \* what Date.now() returns (its low 32 bits)
  arrays,             \* the heap of arrays: arrays[r] is the content of array r
  ctorArgs,           \* kernel harness: the constructor arguments every strategy is given
  things,             \* kernel harness: the instance built by each strategy, or NoThing
  lastCall,           \* kernel harness: the call made last on every instance
  lastRet,            \* kernel harness: what that call returned, per strategy
  nCalls,             \* kernel harness: number of calls made
  retainedInstances,  \* makeInstances.ts: the module-level retainedInstances
  out,                \* what the last makeInstances call returned
  opts,               \* the argument of the last makeInstances call
  nBatches,           \* number of makeInstances calls made
  argv,               \* process.argv.slice(2)
  pc,                 \* where main / takeHeapSnapshot is suspended
  exitCode,           \* process.exitCode
  console,            \* what was printed, in order
  gcAvailable,        \* typeof gc === "function"
  session,            \* the inspector session: [connected, enabled, listener]
  output,             \* the write stream: [path, open, ended, finished, chunks, writeAfterEnd]
  emitted,            \* the messages the session has emitted, in order
  protocolLog,        \* the calls made on the session and the stream and their completions
  rolling             \* rollingAverage on doubles: [state, windowSize, called, output]

kernelVars == <<ctorArgs, things, lastCall, lastRet, nCalls, rolling>>
heapVars == <<now, arrays>>
popVars == <<retainedInstances, out, opts, nBatches>>
runVars == <<argv, pc, exitCode, console, gcAvailable, session, output, emitted, protocolLog>>
vars == <<heapVars, kernelVars, popVars, runVars>>

-----------------------------------------------------------------------------
(* Bounds *)

MaxLen == 2      \* longest values array given to a constructor in the kernel harness
MaxCalls == 2    \* calls made on the instances in the kernel harness
MaxClock == 1    \* the clock advances at most this far
MaxAbs == 8      \* kernel calls are made while |value|, |bias|, |scale| <= MaxAbs

-----------------------------------------------------------------------------
(* Kernel harness: one instance per strategy, built from the same          *)
(* arguments, then the same calls made on all of them.                     *)

Strategies == {"class", "factory", "factory-thin"}

NoThing == [approach |-> "none"]
NoCall == [op |-> "none", arg |-> 0]

ValueChoices == {-Q, Q \div 2}
RECURSIVE SeqsUpTo(_, _)
SeqsUpTo(S, n) ==
  IF n = 0 THEN {<<>>}
  ELSE SeqsUpTo(S, n - 1)
       \cup {Append(q, e) : q \in {t \in SeqsUpTo(S, n - 1) : Len(t) = n - 1}, e \in S}

WindowArgs == {0, 2}
SeedArgs == {0, 1}
IterationArgs == {0, 2}
NameArgs == {"renamed"}

Calls ==
  {[op |-> "checksum", arg |-> 0], [op |-> "normalizeInPlace", arg |-> 0],
   [op |-> "formatSummary", arg |-> 0]}
  \cup {[op |-> "rollingAverage", arg |-> w] : w \in WindowArgs}
  \cup {[op |-> "scramble", arg |-> sd] : sd \in SeedArgs}
  \cup {[op |-> "simulate", arg |-> it] : it \in IterationArgs}
  \cup {[op |-> "setName", arg |-> nm] : nm \in NameArgs}

Built(a) == things[a] # NoThing
AllBuilt == \A a \in Strategies : Built(a)
ValuesOf(a) == arrays[ValuesRef(things[a])]

RECURSIVE MaxAbsOf(_, _)
MaxAbsOf(vals, n) == IF n = 0 THEN 0 ELSE Max[MaxAbsOf(vals, n - 1), Abs(vals[n])]

\* the fixed-point numbers of the call stay inside the integers of the checker
InRange(inst, vals, call) ==
  /\ MaxAbsOf(vals, Len(vals)) <= MaxAbs * Q
  /\ Abs(BiasOf(inst)) <= MaxAbs * Q
  /\ Abs(ScaleOf(inst)) <= MaxAbs * Q
  /\ call.op = "simulate" =>
       ((MaxAbsOf(vals, Len(vals)) \div Q) + 1)
         * (((Abs(ScaleOf(inst)) \div Q) + 1) ^ Max[1, call.arg]) <= MaxAbs

NoStream ==
  [path |-> "", open |-> FALSE, ended |-> FALSE, finished |-> FALSE,
   chunks |-> <<>>, writeAfterEnd |-> FALSE]

IdleRun ==
  /\ argv = <<>>
  /\ pc = "idle"
  /\ exitCode = 0
  /\ console = <<>>
  /\ gcAvailable = TRUE
  /\ session = [connected |-> FALSE, enabled |-> FALSE, listener |-> FALSE]
  /\ output = NoStream
  /\ emitted = <<>>
  /\ protocolLog = <<>>

IdlePop ==
  /\ retainedInstances = <<>>
  /\ out = <<>>
  /\ opts = [approach |-> "none", count |-> 0]
  /\ nBatches = 0

NoRolling ==
  [state |-> [values |-> <<>>, bias |-> F64Zero, scale |-> F64Zero],
   windowSize |-> 0, called |-> FALSE, output |-> <<>>]

IdleKernel ==
  /\ ctorArgs = [id |-> 0, name |-> "", values |-> 0, bias |-> 0, scale |-> 0, tag |-> ""]
  /\ things = [a \in Strategies |-> NoThing]
  /\ lastCall = NoCall
  /\ lastRet = [a \in Strategies |-> "none"]
  /\ nCalls = 0
  /\ rolling = NoRolling

\* the caller's array is array 1 of the heap
InitKernel ==
  /\ now = 0
  /\ \E vs \in SeqsUpTo(ValueChoices, MaxLen) : arrays = <<vs>>
  /\ ctorArgs = [id |-> 7, name |-> "obj_7", values |-> 1,
                 bias |-> 30000, scale |-> 1020000, tag |-> "beta"]
  /\ things = [a \in Strategies |-> NoThing]
  /\ lastCall = NoCall
  /\ lastRet = [a \in Strategies |-> "none"]
  /\ nCalls = 0
  /\ rolling = NoRolling
  /\ IdlePop
  /\ IdleRun

\* the harness builds the instances one after the other, in this order
StrategyOrder == <<"class", "factory", "factory-thin">>

\* new HeavyThing(...) / createHeavyThing(...) / createHeavyThingThin(...);
\* Date.now() returns t, the clock having advanced or not since it was last read
Construct(a) ==
  /\ ~Built(a)
  /\ \A k \in 1..Len(StrategyOrder) :
       StrategyOrder[k] = a => \A j \in 1..(k - 1) : Built(StrategyOrder[j])
  /\ \E t \in now..MaxClock :
       /\ now' = t
       /\ LET made == NewInstance(a, ctorArgs.id, ctorArgs.name, arrays[ctorArgs.values],
                                  ctorArgs.bias, ctorArgs.scale, ctorArgs.tag,
                                  Len(arrays) + 1, t)
          IN  /\ things' = [things EXCEPT ![a] = made.inst]
              /\ arrays' = Append(arrays, made.vals)
  /\ UNCHANGED <<ctorArgs, lastCall, lastRet, nCalls, rolling, popVars, runVars>>

\* the heap and the harness after the calls, res[a] being the outcome for strategy a
Settle(res) ==
  /\ things' = [a \in Strategies |-> res[a].inst]
  /\ arrays' = [r \in 1..Len(arrays) |->
                  IF \E a \in Strategies : ValuesRef(things[a]) = r
                  THEN res[CHOOSE a \in Strategies : ValuesRef(things[a]) = r].vals
                  ELSE arrays[r]]
  /\ lastRet' = [a \in Strategies |-> res[a].ret]

\* the same call on the instance of every strategy
CallAll(call) ==
  /\ AllBuilt
  /\ nCalls < MaxCalls
  /\ \A a \in Strategies : InRange(things[a], ValuesOf(a), call)
  /\ \E res \in {[a \in Strategies |-> Invoke(things[a], ValuesOf(a), call)]} : Settle(res)
  /\ lastCall' = call
  /\ nCalls' = nCalls + 1
  /\ UNCHANGED <<now, ctorArgs, rolling, popVars, runVars>>

\* what the caller stores into its own array after the constructions
CallerValue == 3 * Q

\* the caller writes element 0 of the array it gave to the constructors
CallerWrite ==
  /\ AllBuilt
  /\ Len(arrays[ctorArgs.values]) > 0
  /\ arrays[ctorArgs.values][1] # CallerValue
  /\ arrays' = [arrays EXCEPT ![ctorArgs.values][1] = CallerValue]
  /\ UNCHANGED <<now, kernelVars, popVars, runVars>>

NextKernel ==
  \/ \E a \in Strategies : Construct(a)
  \/ \E call \in Calls : CallAll(call)
  \/ CallerWrite

SpecKernel == InitKernel /\ [][NextKernel]_vars

-----------------------------------------------------------------------------
(* rollingAverage on doubles: one call on a state given by the caller *)

InitRolling ==
  /\ now = 0
  /\ arrays = <<>>
  /\ ctorArgs = [id |-> 0, name |-> "", values |-> 0, bias |-> 0, scale |-> 0, tag |-> ""]
  /\ things = [a \in Strategies |-> NoThing]
  /\ lastCall = NoCall
  /\ lastRet = [a \in Strategies |-> "none"]
  /\ nCalls = 0
  /\ \E vs \in SeqsUpTo({Double.tenth, Double.fifth, Double.one, Double.twoTo53}, MaxLen),
        b \in {F64Zero, Double.bias}, sc \in {Double.one, Double.scale},
        w \in 0..(MaxLen + 1) :
       rolling = [state |-> [values |-> vs, bias |-> b, scale |-> sc],
                  windowSize |-> w, called |-> FALSE, output |-> <<>>]
  /\ IdlePop
  /\ IdleRun

\* rollingAverage(windowSize) on the state
RollingAverageCall ==
  /\ ~rolling.called
  /\ rolling' = [rolling EXCEPT
                   !.called = TRUE,
                   !.output = doRollingAverage64(rolling.state, rolling.windowSize)]
  /\ UNCHANGED <<heapVars, ctorArgs, things, lastCall, lastRet, nCalls, popVars, runVars>>

NextRolling == RollingAverageCall

SpecRolling == InitRolling /\ [][NextRolling]_vars

-----------------------------------------------------------------------------
(* makeInstances.ts: the population generator *)

MaxBatches == 2   \* makeInstances calls made
MaxCount == 3     \* largest count asked of makeInstances

ValuesLength == 64
FallbackSeed == 123456789

\* (rnd - 0.5) * 2 for each generator state, rnd = (x >>> 0) / 0xffffffff
MapToUnit[xs \in Seq(Int)] == [i \in 1..Len(xs) |-> 2 * RndOf[xs[i]] - Q]

\* a generateInitialValues that ignores its seed (used to test the seeding)
generateInitialValues_fixedSeed(seed, length) ==
  MapToUnit[XorShiftStream(<<>>, FallbackSeed, length)]

generateInitialValues(seed, length) ==
  MapToUnit[XorShiftStream(<<>>, IF seed # 0 THEN seed ELSE FallbackSeed, length)]

\* the constructor arguments of loop pass i (from 0)
SeedArgs_id(i) == i + 1
SeedArgs_name(i) == "obj_" \o ToHex(i + 1)
SeedArgs_tag(i) == IF i % 3 = 0 THEN "alpha" ELSE IF i % 3 = 1 THEN "beta" ELSE "gamma"
SeedArgs_bias(i) == (i % 7) * 10000
SeedArgs_scale(i) == Q + (i % 5) * 10000

\* generateInitialValues(id, 64) for the ids a call can reach; the function is
\* pure, so its results are tabulated once
values == [id \in 1..MaxCount |-> generateInitialValues(id, ValuesLength)]

\* loop pass i (from 0): the instance made and the array it holds
loopPass(options, heap, stamps, i) ==
  NewInstance(options.approach, SeedArgs_id(i), SeedArgs_name(i),
              values[SeedArgs_id(i)],
              SeedArgs_bias(i), SeedArgs_scale(i), SeedArgs_tag(i),
              Len(heap) + i + 1, stamps[i + 1])

\* a makeInstances that keeps only the instances of the last call (used to
\* test the retention)
makeInstances_forgetful(options, retained, heap, stamps) ==
  LET result == [i \in 1..options.count |-> loopPass(options, heap, stamps, i - 1).inst]
  IN  [out |-> result,
       retainedInstances |-> result,
       arrays |-> heap \o [i \in 1..options.count |->
                              loopPass(options, heap, stamps, i - 1).vals]]

\* makeInstances(options): `retained` and `heap` are retainedInstances and the
\* heap before the call, stamps[i + 1] what Date.now() returns in loop pass i.
\* The array generateInitialValues returns is dropped after the pass, so only
\* the copy the constructor makes is allocated in the heap.  The checksum()
\* calls of lines 62-65 change nothing.
makeInstances(options, retained, heap, stamps) ==
  CHOOSE r \in
    {[out |-> [i \in 1..options.count |-> made[i].inst],
      retainedInstances |-> retained \o [i \in 1..options.count |-> made[i].inst],
      arrays |-> heap \o [i \in 1..options.count |-> made[i].vals]] :
       made \in {<<>> \o [i \in 1..options.count |->
                             loopPass(options, heap, stamps, i - 1)]}} : TRUE

\* the clock readings of `count` successive constructions, from time t on
Stamps(t, count) ==
  {st \in [1..count -> t..MaxClock] : \A i \in 1..(count - 1) : st[i] <= st[i + 1]}

Approaches == {"class", "factory", "factory-thin", "factory-prototype"}

InitPopulation ==
  /\ now = 0
  /\ arrays = <<>>
  /\ IdleKernel
  /\ IdlePop
  /\ IdleRun

MakeInstancesCall(options) ==
  /\ nBatches < MaxBatches
  /\ \E st \in Stamps(now, options.count) :
       /\ now' = IF options.count = 0 THEN now ELSE st[options.count]
       /\ \E made \in {makeInstances(options, retainedInstances, arrays, st)} :
            /\ out' = made.out
            /\ retainedInstances' = made.retainedInstances
            /\ arrays' = made.arrays
  /\ opts' = options
  /\ nBatches' = nBatches + 1
  /\ UNCHANGED <<kernelVars, runVars>>

NextPopulation ==
  \E a \in Approaches, c \in 0..MaxCount :
    MakeInstancesCall([approach |-> a, count |-> c])

SpecPopulation == InitPopulation /\ [][NextPopulation]_vars

-----------------------------------------------------------------------------
(* snapshot.ts: takeHeapSnapshot *)

MaxChunks == 2    \* messages the session emits during a capture

\* a JavaScript value a message can carry
Undefined == [type |-> "undefined", data |-> ""]
Str(d) == [type |-> "string", data |-> d]
Bytes(d) == [type |-> "Uint8Array", data |-> d]
Num(d) == [type |-> "number", data |-> d]

\* the event messages: [chunk, params: [chunk, data]]
Messages ==
  { [chunk |-> Str("A"), params |-> [chunk |-> Undefined, data |-> Undefined]],
    [chunk |-> Undefined, params |-> [chunk |-> Bytes("C"), data |-> Undefined]],
    [chunk |-> Undefined, params |-> [chunk |-> Undefined, data |-> Str("D")]],
    [chunk |-> Num("5"), params |-> [chunk |-> Str("E"), data |-> Undefined]] }

\* output.write(chunk)
StreamWrite(stream, chunk) ==
  IF stream.ended THEN [stream EXCEPT !.writeAfterEnd = TRUE]
  ELSE [stream EXCEPT !.chunks = Append(@, chunk)]

\* an onChunk that forwards text only (used to test the forwarding)
onChunk_textOnly(m, stream) ==
  LET chunk == IF m.chunk.type # "undefined" THEN m.chunk ELSE m.params.chunk
  IN  IF chunk.type = "string" THEN StreamWrite(stream, chunk) ELSE stream

\* the handler: chunk = m?.chunk ?? m?.params?.chunk, written when it is a
\* string, a Uint8Array or a Buffer
onChunk(m, stream) ==
  LET chunk == IF m.chunk.type # "undefined" THEN m.chunk ELSE m.params.chunk
  IN  IF chunk.type = "string" THEN StreamWrite(stream, chunk)
      ELSE IF chunk.type = "Uint8Array" \/ chunk.type = "Buffer"
           THEN StreamWrite(stream, chunk)
           ELSE stream

\* a callback that resolves whatever it is given (used to test the propagation)
settle_always(err) == "resolved"

\* (err) => err ? reject(err) : resolve()
settle(err) == IF err THEN "rejected" ELSE "resolved"

\* lines 47-48 in the other order (used to test the step order)
afterCapture_endFirst(sess, stream, log) ==
  [session |-> [sess EXCEPT !.listener = FALSE],
   output |-> [stream EXCEPT !.ended = TRUE],
   protocolLog |-> log \o <<"end", "off">>]

\* lines 47-48 without the session.off (used to test the unregistration)
afterCapture_keepHandler(sess, stream, log) ==
  [session |-> sess,
   output |-> [stream EXCEPT !.ended = TRUE],
   protocolLog |-> log \o <<"end">>]

\* lines 11-30, up to the first suspension: connect, open the stream, register
\* the handler, post HeapProfiler.enable
beforeEnable(filePath, log) ==
  [session |-> [connected |-> TRUE, enabled |-> FALSE, listener |-> TRUE],
   output |-> [NoStream EXCEPT !.path = filePath, !.open = TRUE],
   protocolLog |-> log \o <<"connect", "createWriteStream", "on", "post:enable">>]

\* lines 47-48, up to the suspension: session.off, output.end(resolve)
afterCapture(sess, stream, log) ==
  [session |-> [sess EXCEPT !.listener = FALSE],
   output |-> [stream EXCEPT !.ended = TRUE],
   protocolLog |-> log \o <<"off", "end">>]

-----------------------------------------------------------------------------
(* main.ts: the command *)

MaxArgs == 4      \* longest argument vector

Tokens == {"--approach", "--count", "class", "factory-prototype", "1", "1.5", "0.5"}

ArgVectors == SeqsUpTo(Tokens, MaxArgs)

NullApproach == "null"
NullCount == -1

\* Number(token): [finite, value], value a double
NumberOf(tok) ==
  CASE tok = "1" -> [finite |-> TRUE, value |-> Q]
    [] tok = "1.5" -> [finite |-> TRUE, value |-> 1500000]
    [] tok = "0.5" -> [finite |-> TRUE, value |-> 500000]
    [] OTHER -> [finite |-> FALSE, value |-> 0]

\* Math.floor(n) for a double n > 0, as an integer
Floor(n) == n \div Q

ApproachEnum == {"class", "factory", "factory-thin", "factory-prototype"}

\* the loop of parseArgs from position i (from 1) on
RECURSIVE parseLoop(_, _, _, _)
parseLoop(args, i, approach, count) ==
  IF i > Len(args) THEN [approach |-> approach, count |-> count]
  ELSE IF args[i] = "--approach" /\ i + 1 <= Len(args)
  THEN parseLoop(args, i + 2,
                 IF args[i + 1] \in ApproachEnum THEN args[i + 1] ELSE approach, count)
  ELSE IF args[i] = "--count" /\ i + 1 <= Len(args)
  THEN parseLoop(args, i + 2, approach,
                 IF NumberOf(args[i + 1]).finite /\ NumberOf(args[i + 1]).value > 0
                 THEN Floor(NumberOf(args[i + 1]).value) ELSE count)
  ELSE parseLoop(args, i + 1, approach, count)

NullOptions == [approach |-> NullApproach, count |-> NullCount]

\* a parseArgs that takes count 1 when none is given (used to test the usage path)
parseArgs_defaultCount(args) ==
  IF parseLoop(args, 1, NullApproach, NullCount).approach = NullApproach
  THEN NullOptions
  ELSE [approach |-> parseLoop(args, 1, NullApproach, NullCount).approach,
        count |-> Max[1, parseLoop(args, 1, NullApproach, NullCount).count]]

\* parseArgs(argv): the options, or NullOptions for null
parseArgs(args) ==
  IF \/ parseLoop(args, 1, NullApproach, NullCount).approach = NullApproach
     \/ parseLoop(args, 1, NullApproach, NullCount).count = NullCount
     \/ parseLoop(args, 1, NullApproach, NullCount).count = 0
  THEN NullOptions
  ELSE parseLoop(args, 1, NullApproach, NullCount)

UsageLine ==
  "  node --expose-gc dist/main.js --approach class|factory|factory-thin|factory-prototype --count <N>"

printUsage(con) == con \o <<"Usage:", UsageLine>>

\* `heap-${opts.approach}-${opts.count}.heapsnapshot`
hsFile(options) ==
  "heap-" \o options.approach \o "-" \o ToString(options.count) \o ".heapsnapshot"

\* a main that says nothing when gc is missing (used to test the warning)
mainLines_noWarning(options, gc) ==
  <<"Approach: " \o options.approach \o ", Count: " \o ToString(options.count),
    "Before create", "After create+gc", "Creation delta (heapUsed):",
    "Taking heap snapshot -> " \o hsFile(options)>>

\* what main prints before it calls takeHeapSnapshot
mainLines(options, gc) ==
  (IF gc THEN <<>> ELSE <<"Warning: global.gc() not available.">>)
  \o <<"Approach: " \o options.approach \o ", Count: " \o ToString(options.count),
       "Before create", "After create+gc", "Creation delta (heapUsed):",
       "Taking heap snapshot -> " \o hsFile(options)>>

\* main().catch: the rejection reaches the top level
topLevelCatch(con) == Append(con, "Fatal error:")

InitRun ==
  /\ now = 0
  /\ arrays = <<>>
  /\ IdleKernel
  /\ IdlePop
  /\ argv \in ArgVectors
  /\ pc = "start"
  /\ exitCode = 0
  /\ console = <<>>
  /\ gcAvailable \in BOOLEAN
  /\ session = [connected |-> FALSE, enabled |-> FALSE, listener |-> FALSE]
  /\ output = NoStream
  /\ emitted = <<>>
  /\ protocolLog = <<>>

\* main finds no options: usage, exit status 1, return
MainUsage ==
  /\ pc = "start"
  /\ parseArgs(argv) = NullOptions
  /\ console' = printUsage(console)
  /\ exitCode' = 1
  /\ pc' = "exited"
  /\ UNCHANGED <<heapVars, kernelVars, popVars, argv, gcAvailable, session, output,
                 emitted, protocolLog>>

\* main with options, up to the first suspension inside takeHeapSnapshot
MainStart ==
  /\ pc = "start"
  /\ parseArgs(argv) # NullOptions
  /\ \E st \in Stamps(now, parseArgs(argv).count) :
       /\ now' = st[parseArgs(argv).count]
       /\ \E made \in {makeInstances(parseArgs(argv), retainedInstances, arrays, st)} :
            /\ out' = made.out
            /\ retainedInstances' = made.retainedInstances
            /\ arrays' = made.arrays
  /\ opts' = parseArgs(argv)
  /\ nBatches' = nBatches + 1
  /\ console' = console \o mainLines(parseArgs(argv), gcAvailable)
  /\ session' = beforeEnable(hsFile(parseArgs(argv)), protocolLog).session
  /\ output' = beforeEnable(hsFile(parseArgs(argv)), protocolLog).output
  /\ protocolLog' = beforeEnable(hsFile(parseArgs(argv)), protocolLog).protocolLog
  /\ pc' = "awaitEnable"
  /\ UNCHANGED <<kernelVars, argv, exitCode, gcAvailable, emitted>>

\* what the session passes to the callback of a command
Reply(command, err) == (IF err THEN "err:" ELSE "ok:") \o command

\* a step rejected: takeHeapSnapshot and main reject, the top level catches
Rejected ==
  /\ console' = topLevelCatch(console)
  /\ exitCode' = 1
  /\ pc' = "failed"

\* the callback of HeapProfiler.enable; on success, post HeapProfiler.takeHeapSnapshot
EnableCallback(err) ==
  /\ pc = "awaitEnable"
  /\ session' = [session EXCEPT !.enabled = ~err]
  /\ IF settle(err) = "rejected"
     THEN /\ Rejected
          /\ protocolLog' = Append(protocolLog, Reply("enable", err))
     ELSE /\ protocolLog' = protocolLog \o <<Reply("enable", err), "post:capture">>
          /\ pc' = "awaitCapture"
          /\ UNCHANGED <<console, exitCode>>
  /\ UNCHANGED <<heapVars, kernelVars, popVars, argv, gcAvailable, output, emitted>>

\* the session emits HeapProfiler.addHeapSnapshotChunk with message m while
\* the capture is under way; the registered handler runs
EmitChunk(m) ==
  /\ pc = "awaitCapture"
  /\ Len(emitted) < MaxChunks
  /\ emitted' = Append(emitted, m)
  /\ output' = IF session.listener THEN onChunk(m, output) ELSE output
  /\ UNCHANGED <<heapVars, kernelVars, popVars, argv, pc, exitCode, console,
                 gcAvailable, session, protocolLog>>

\* the callback of HeapProfiler.takeHeapSnapshot; on success, session.off and
\* output.end(resolve)
CaptureCallback(err) ==
  /\ pc = "awaitCapture"
  /\ IF settle(err) = "rejected"
     THEN /\ Rejected
          /\ protocolLog' = Append(protocolLog, Reply("capture", err))
          /\ UNCHANGED <<session, output>>
     ELSE /\ session' =
               afterCapture(session, output,
                            Append(protocolLog, Reply("capture", err))).session
          /\ output' =
               afterCapture(session, output,
                            Append(protocolLog, Reply("capture", err))).output
          /\ protocolLog' =
               afterCapture(session, output,
                            Append(protocolLog, Reply("capture", err))).protocolLog
          /\ pc' = "awaitEnd"
          /\ UNCHANGED <<console, exitCode>>
  /\ UNCHANGED <<heapVars, kernelVars, popVars, argv, gcAvailable, emitted>>

\* the stream has finished; post HeapProfiler.disable
EndCallback ==
  /\ pc = "awaitEnd"
  /\ output' = [output EXCEPT !.finished = TRUE, !.open = FALSE]
  /\ protocolLog' = protocolLog \o <<"end:done", "post:disable">>
  /\ pc' = "awaitDisable"
  /\ UNCHANGED <<heapVars, kernelVars, popVars, argv, exitCode, console, gcAvailable,
                 session, emitted>>

\* the callback of HeapProfiler.disable; on success, session.disconnect(),
\* takeHeapSnapshot resolves and main prints "Done."
DisableCallback(err) ==
  /\ pc = "awaitDisable"
  /\ IF settle(err) = "rejected"
     THEN /\ Rejected
          /\ protocolLog' = Append(protocolLog, Reply("disable", err))
          /\ UNCHANGED session
     ELSE /\ session' = [session EXCEPT !.enabled = err, !.connected = FALSE]
          /\ protocolLog' = protocolLog \o <<Reply("disable", err), "disconnect">>
          /\ console' = Append(console, "Done.")
          /\ pc' = "done"
          /\ UNCHANGED exitCode
  /\ UNCHANGED <<heapVars, kernelVars, popVars, argv, gcAvailable, output, emitted>>

NextRun ==
  \/ MainUsage
  \/ MainStart
  \/ \E err \in BOOLEAN : EnableCallback(err)
  \/ \E m \in Messages : EmitChunk(m)
  \/ \E err \in BOOLEAN : CaptureCallback(err)
  \/ EndCallback
  \/ \E err \in BOOLEAN : DisableCallback(err)

SpecRun == InitRun /\ [][NextRun]_vars

-----------------------------------------------------------------------------
(* Properties of the kernel harness *)

\* C1: the three strategies, given the same constructor arguments and the same
\* calls, return the same checksum() and formatSummary() after each call and
\* hold the same values, bias and scale.
C1_StrategiesAgree ==
  AllBuilt =>
    \A a, b \in Strategies :
      /\ Checksum(things[a], ValuesOf(a)) = Checksum(things[b], ValuesOf(b))
      /\ MethodResult(things[a], ValuesOf(a), [op |-> "formatSummary", arg |-> 0]).ret
           = MethodResult(things[b], ValuesOf(b), [op |-> "formatSummary", arg |-> 0]).ret
      /\ ValuesOf(a) = ValuesOf(b)
      /\ BiasOf(things[a]) = BiasOf(things[b])
      /\ ScaleOf(things[a]) = ScaleOf(things[b])

\* C10: after any calls, the values array of every instance of every strategy
\* has the length of the array passed to its constructor.
C10_LengthKept ==
  \A a \in Strategies :
    Built(a) => Len(ValuesOf(a)) = Len(arrays[ctorArgs.values])

\* two calls made, the last a mutating one that changed a non-empty array
C10_Witness ==
  /\ AllBuilt
  /\ nCalls >= 2
  /\ lastCall.op \in {"normalizeInPlace", "scramble", "simulate"}
  /\ Len(arrays[ctorArgs.values]) >= 2
  /\ \A a \in Strategies : ValuesOf(a) # arrays[ctorArgs.values]

-----------------------------------------------------------------------------
(* Properties of the population generator *)

\* C8: retainedInstances is append-only: a makeInstances call with count N
\* returns N instances and appends exactly those, in order; nothing else
\* changes retainedInstances.
C8_AppendOnly ==
  [][/\ nBatches' # nBatches =>
          /\ Len(out') = opts'.count
          /\ retainedInstances' = retainedInstances \o out'
     /\ nBatches' = nBatches => retainedInstances' = retainedInstances]_vars

\* a second call appended its instances behind those of a first, non-empty call
C8_Witness ==
  /\ nBatches = 2
  /\ Len(out) >= 2
  /\ Len(retainedInstances) > Len(out)
  /\ \A i, j \in 1..Len(retainedInstances) :
       i # j => retainedInstances[i] # retainedInstances[j]

\* x / (2^32 - 1) for each state x of a stream, mapped from [0, 1] onto [-1, 1]
C9_Unit[xs \in Seq(Int)] == [j \in 1..Len(xs) |-> (RndOf[xs[j]] - Q \div 2) * 2]

\* the first 64 states of the xorshift32 stream seeded with id, so mapped
C9_Stream == [id \in 1..MaxCount |-> C9_Unit[XorShiftStream(<<>>, id, 64)]]

C9_ArgsOf(inst, i) ==
  /\ GetId(inst) = i + 1
  /\ GetName(inst) = "obj_" \o ToHex(i + 1)
  /\ TagOf(inst) = <<"alpha", "beta", "gamma">>[(i % 3) + 1]
  /\ BiasOf(inst) = (i % 7) * (Q \div 100)
  /\ ScaleOf(inst) = Q + (i % 5) * (Q \div 100)
  /\ arrays[ValuesRef(inst)] = C9_Stream[i + 1]
  /\ \A j \in 1..64 : arrays[ValuesRef(inst)][j] >= -Q /\ arrays[ValuesRef(inst)][j] <= Q

-----------------------------------------------------------------------------
(* Properties of takeHeapSnapshot and of the command *)

\* the position of an event in the protocol log, 0 when it has not happened
RECURSIVE PosFrom(_, _)
PosFrom(e, i) ==
  IF i > Len(protocolLog) THEN 0
  ELSE IF protocolLog[i] = e THEN i ELSE PosFrom(e, i + 1)
Pos(e) == PosFrom(e, 1)
Happened(e) == Pos(e) # 0

\* every event of the chain that has happened comes after all those before it,
\* which have happened too
InOrder(chain) ==
  \A k \in 2..Len(chain) :
    Happened(chain[k]) =>
      /\ Happened(chain[k - 1])
      /\ Pos(chain[k - 1]) < Pos(chain[k])

\* C2 as stated: open, enable, register the handler, capture, unregister, end
\* the stream, disable, close -- each complete before the next begins.
C2_StatedOrder ==
  InOrder(<<"connect", "post:enable", "ok:enable", "on", "post:capture", "ok:capture",
            "off", "end", "end:done", "post:disable", "ok:disable", "disconnect">>)

\* C2, amended: the handler is registered before heap profiling is enabled;
\* otherwise the steps follow the stated order, each complete before the next.
C2_CodeOrder ==
  /\ InOrder(<<"connect", "on", "post:enable", "ok:enable", "post:capture", "ok:capture",
               "off", "end", "end:done", "post:disable", "ok:disable", "disconnect">>)
  /\ \A i, j \in 1..Len(protocolLog) : i # j => protocolLog[i] # protocolLog[j]

\* a capture that ran through all its steps
C2_Witness ==
  /\ pc = "done"
  /\ Happened("disconnect")
  /\ Len(emitted) >= 1

\* C3 as stated: on every exit path of takeHeapSnapshot, heap profiling
\* disable has been attempted and the session is disconnected.
C3_AlwaysReleased ==
  pc \in {"done", "failed"} =>
    /\ Happened("post:disable")
    /\ ~session.connected

\* the payload a message carries, whatever field holds it
C4_Payloads(m) ==
  {v \in {m.chunk, m.params.chunk, m.params.data} :
     v.type \in {"string", "Uint8Array", "Buffer"}}
C4_Fragment(m) == CHOOSE v \in C4_Payloads(m) : TRUE

\* the handler finds the fragment of m: it is m.chunk, or m.chunk is null or
\* undefined and it is m.params.chunk
C4_Found(m) ==
  \/ m.chunk.type \in {"string", "Uint8Array", "Buffer"}
  \/ /\ m.chunk.type = "undefined"
     /\ m.params.chunk.type \in {"string", "Uint8Array", "Buffer"}

RECURSIVE C4_Expected(_, _)
C4_Expected(msgs, i) ==
  IF i > Len(msgs) THEN <<>>
  ELSE (IF C4_Found(msgs[i])
        THEN <<IF msgs[i].chunk.type # "undefined" THEN msgs[i].chunk
               ELSE msgs[i].params.chunk>>
        ELSE <<>>)
       \o C4_Expected(msgs, i + 1)

C5_EndAfterCapture ==
  /\ output.ended =>
       Happened("ok:capture") /\ Happened("end") /\ Pos("ok:capture") < Pos("end")
  /\ Happened("end") => Happened("off") /\ Pos("off") < Pos("end")
  /\ pc = "done" => ~session.listener
  /\ ~output.writeAfterEnd
  /\ pc = "done" => output.finished /\ output.chunks = C4_Expected(emitted, 1)

\* a successful call that wrote fragments before the end
C5_Witness ==
  /\ pc = "done"
  /\ output.finished
  /\ Len(output.chunks) = 2

\* C6 as stated: the options are valid when --approach carries a value of the
\* enumeration and --count a positive integer
C6_ValidApproach ==
  \E i \in 1..(Len(argv) - 1) : argv[i] = "--approach" /\ argv[i + 1] \in ApproachEnum
C6_PositiveIntegerCount ==
  \E i \in 1..(Len(argv) - 1) :
    /\ argv[i] = "--count"
    /\ NumberOf(argv[i + 1]).finite
    /\ NumberOf(argv[i + 1]).value > 0
    /\ NumberOf(argv[i + 1]).value % Q = 0
C6_CountAtLeastOne ==
  \E i \in 1..(Len(argv) - 1) :
    /\ argv[i] = "--count"
    /\ NumberOf(argv[i + 1]).finite
    /\ NumberOf(argv[i + 1]).value >= Q

\* usage printed, exit status set, and nothing done
C6_UsageOnly ==
  /\ pc = "exited"
  /\ console = <<"Usage:", UsageLine>>
  /\ exitCode # 0
  /\ retainedInstances = <<>>
  /\ arrays = <<>>
  /\ out = <<>>
  /\ protocolLog = <<>>
  /\ ~output.open
  /\ ~session.connected

\* C6 as stated: a vector without a valid --approach or without a positive
\* integer --count gives the usage text, a non-zero exit status and no work.
C6_StatedUsage ==
  (pc # "start" /\ ~(C6_ValidApproach /\ C6_PositiveIntegerCount)) => C6_UsageOnly

\* C6, amended: a vector in which no --approach carries a value of the
\* enumeration, or no --count carries a finite number of at least 1, gives
\* the usage text, a non-zero exit status and no work; a fractional count of
\* at least 1 is accepted and rounded down.
C6_CodeUsage ==
  (pc # "start" /\ ~(C6_ValidApproach /\ C6_CountAtLeastOne)) => C6_UsageOnly

\* a valid approach with a count below 1 ended in the usage text
C6_Witness ==
  /\ C6_UsageOnly
  /\ C6_ValidApproach
  /\ \E i \in 1..(Len(argv) - 1) : argv[i] = "--count" /\ argv[i + 1] = "0.5"

\* C7: once a step of the session has rejected, the top level has reported
\* the failure and set a non-zero exit status, and "Done." is never printed.
C7_RejectionSurfaces ==
  (Happened("err:enable") \/ Happened("err:capture") \/ Happened("err:disable")) =>
    /\ pc = "failed"
    /\ exitCode # 0
    /\ \E i \in 1..Len(console) : console[i] = "Fatal error:"
    /\ \A i \in 1..Len(console) : console[i] # "Done."

\* the last step, disable, rejected after the snapshot was written
C7_Witness ==
  /\ Happened("err:disable")
  /\ output.finished
  /\ pc = "failed"

-----------------------------------------------------------------------------
(* C11 *)

\* C11: the constructors copy the values they are given.  Under every
\* strategy the array of an instance is not the caller's array, no call on
\* the instances changes the caller's array, and a write of the caller to
\* its array changes neither the fields nor the array of an instance, which
\* are all that its operations read.
C11_CopiesValues ==
  [][/\ \A a \in Strategies :
          things'[a] # NoThing => ValuesRef(things'[a]) # ctorArgs.values
     /\ nCalls' # nCalls => arrays'[ctorArgs.values] = arrays[ctorArgs.values]
     /\ (AllBuilt /\ arrays'[ctorArgs.values] # arrays[ctorArgs.values]) =>
          \A a \in Strategies :
            /\ things'[a] = things[a]
            /\ arrays'[ValuesRef(things'[a])] = arrays[ValuesRef(things[a])]]_vars

\* the caller has written its array and the instances have been normalized:
\* no instance sees the caller's value, the caller sees no normalized value
C11_Witness ==
  /\ AllBuilt
  /\ lastCall.op = "normalizeInPlace"
  /\ Len(arrays[ctorArgs.values]) = 2
  /\ arrays[ctorArgs.values][1] = CallerValue
  /\ arrays[ctorArgs.values][2] \in ValueChoices
  /\ \A a \in Strategies :
       /\ ValuesOf(a)[1] # CallerValue
       /\ ValuesOf(a) # arrays[ctorArgs.values]

-----------------------------------------------------------------------------
(* C12 *)

C12_ReadOnlyOps == {"checksum", "rollingAverage", "formatSummary"}

\* C12: checksum, rollingAverage and formatSummary are read-only under every
\* strategy.  A call of one of them leaves every field and the array of every
\* instance as they were; checksum returns the checksum of the state it is
\* called in; so a checksum called right after a read-only call on a state
\* returns what a checksum on that state returned, and two successive
\* checksum calls return the same value.
C12_ReadOnly ==
  [][(nCalls' # nCalls /\ lastCall'.op \in C12_ReadOnlyOps) =>
       /\ things' = things
       /\ arrays' = arrays
       /\ \A a \in Strategies :
            /\ lastCall'.op = "checksum" =>
                 lastRet'[a] = Checksum(things[a], arrays[ValuesRef(things[a])])
            /\ Checksum(things'[a], arrays'[ValuesRef(things'[a])])
                 = Checksum(things[a], arrays[ValuesRef(things[a])])
            /\ (lastCall'.op = "checksum" /\ lastCall.op = "checksum") =>
                 lastRet'[a] = lastRet[a]]_vars

\* checksum made as the second call on instances that hold two values
C12_Witness ==
  /\ AllBuilt
  /\ nCalls = 2
  /\ lastCall.op = "checksum"
  /\ \A a \in Strategies :
       /\ Len(ValuesOf(a)) = 2
       /\ lastRet[a] = Checksum(things[a], ValuesOf(a))

-----------------------------------------------------------------------------
(* C13 *)

C13_Simulate(it) == [op |-> "simulate", arg |-> it]

\* iteration arguments below 1
C13_BelowOne == {-1, 0}

-----------------------------------------------------------------------------
(* C15 *)

\* the xorshift32 stream of a seed: seed 0 replaced by the constant, 8 warm-up
\* rounds, then one round per value
C15_Stream ==
  [sd \in SeedArgs |->
     XorShiftStream(<<>>, IF sd = 0 THEN ScrambleSeed ELSE sd, 8 + MaxLen)]

\* the perturbation of index i (from 1): sign by the low bit of the generator
\* state, size rnd / 100 + ((i - 1) mod 7) / 10000
C15_Delta(sd, i) ==
  (IF C15_Stream[sd][8 + i] % 2 = 0 THEN 1 ELSE -1)
    * ((RndOf[C15_Stream[sd][8 + i]] \div 100) + ((i - 1) % 7) * (Q \div 10000))

\* bits 0-7 and bits 8-15 of the last generator state, less 128
C15_BiasIncrement(sd, n) == (C15_Stream[sd][8 + n] % 256) - 128
C15_ScaleFactor(sd, n) == Q + ((C15_Stream[sd][8 + n] \div 256) % 256) - 128

\* C15: scramble(seed) is deterministic and strategy-independent.  Under
\* every strategy a scramble call adds to the value of index i the
\* perturbation that the stream of the seed gives for i, adds to the bias the
\* increment and multiplies the scale by the factor that the stream gives
\* for the length; so instances with equal values, bias and scale before
\* the call have equal values, bias and scale after it.
C15_Deterministic ==
  [][(nCalls' # nCalls /\ lastCall'.op = "scramble") =>
       \A a \in Strategies :
         /\ Len(arrays'[ValuesRef(things'[a])]) = Len(arrays[ValuesRef(things[a])])
         /\ \A i \in 1..Len(arrays[ValuesRef(things[a])]) :
              arrays'[ValuesRef(things'[a])][i] - arrays[ValuesRef(things[a])][i]
                = C15_Delta(lastCall'.arg, i)
         /\ BiasOf(things'[a]) - BiasOf(things[a])
              = C15_BiasIncrement(lastCall'.arg, Len(arrays[ValuesRef(things[a])]))
         /\ ScaleOf(things'[a])
              = MulQ[ScaleOf(things[a]),
                     C15_ScaleFactor(lastCall'.arg, Len(arrays[ValuesRef(things[a])]))]
         /\ \A b \in Strategies :
              (/\ arrays[ValuesRef(things[a])] = arrays[ValuesRef(things[b])]
               /\ BiasOf(things[a]) = BiasOf(things[b])
               /\ ScaleOf(things[a]) = ScaleOf(things[b])) =>
                /\ arrays'[ValuesRef(things'[a])] = arrays'[ValuesRef(things'[b])]
                /\ BiasOf(things'[a]) = BiasOf(things'[b])
                /\ ScaleOf(things'[a]) = ScaleOf(things'[b])]_vars

\* scramble(0) made as the second call on instances that hold two values: the
\* values, bias and scale have changed and are equal under the three strategies
C15_Witness ==
  /\ AllBuilt
  /\ nCalls = 2
  /\ lastCall = [op |-> "scramble", arg |-> 0]
  /\ \A a \in Strategies :
       /\ Len(ValuesOf(a)) = 2
       /\ ValuesOf(a) # arrays[ctorArgs.values]
       /\ ValuesOf(a) = ValuesOf("class")
       /\ BiasOf(things[a]) = BiasOf(things["class"])
       /\ BiasOf(things[a]) # ctorArgs.bias
       /\ ScaleOf(things[a]) = ScaleOf(things["class"])

-----------------------------------------------------------------------------
(* C16 *)

\* position p of retainedInstances holds the first instance of a population
\* of count 3
C16_FirstOfThree(p) ==
  /\ p + 2 <= Len(retainedInstances)
  /\ GetId(retainedInstances[p]) = 1
  /\ GetId(retainedInstances[p + 1]) = 2
  /\ GetId(retainedInstances[p + 2]) = 3
  /\ p + 3 <= Len(retainedInstances) => GetId(retainedInstances[p + 3]) = 1

C16_ChecksumAt(p) ==
  Checksum(retainedInstances[p], arrays[ValuesRef(retainedInstances[p])])

\* C16 as stated: the first instances of populations of count 3 generated
\* under different strategies have the same checksum.  (No operation changes
\* an instance of the population, so its checksum is the one it had
\* immediately after construction.)
C16_FirstChecksumsAgree ==
  \A p, q \in 1..Len(retainedInstances) :
    (/\ C16_FirstOfThree(p)
     /\ C16_FirstOfThree(q)
     /\ retainedInstances[p].approach # retainedInstances[q].approach) =>
      C16_ChecksumAt(p) = C16_ChecksumAt(q)

-----------------------------------------------------------------------------
(* C17 *)

C17_SessionErrors == {"err:enable", "err:capture", "err:disable"}

\* C17: without gc a run with valid options warns and proceeds.  Once main
\* has left its start, the warning is the first line printed, followed by the
\* approach line, the memory reports and the snapshot line; the population
\* has been created and retained and the snapshot has been started; the exit
\* status is non-zero only when a step of the session has replied with an
\* error; and a run whose session steps all succeed ends with "Done." and
\* exit status 0.
C17_DegradedMode ==
  (~gcAvailable /\ pc # "start" /\ parseArgs(argv) # NullOptions) =>
    /\ pc \in {"awaitEnable", "awaitCapture", "awaitEnd", "awaitDisable", "done", "failed"}
    /\ Len(console) >= 6
    /\ console[1] = "Warning: global.gc() not available."
    /\ SubSeq(console, 2, 6) =
         <<"Approach: " \o opts.approach \o ", Count: " \o ToString(opts.count),
           "Before create", "After create+gc", "Creation delta (heapUsed):",
           "Taking heap snapshot -> " \o hsFile(opts)>>
    /\ opts = parseArgs(argv)
    /\ Len(retainedInstances) = opts.count
    /\ out = retainedInstances
    /\ Len(protocolLog) >= 4
    /\ SubSeq(protocolLog, 1, 4) = <<"connect", "createWriteStream", "on", "post:enable">>
    /\ exitCode # 0 =>
         /\ pc = "failed"
         /\ \E i \in 1..Len(protocolLog) : protocolLog[i] \in C17_SessionErrors
    /\ pc = "done" => (exitCode = 0 /\ console[Len(console)] = "Done.")

\* a run without gc that has taken its snapshot and ended with status 0
C17_Witness ==
  /\ ~gcAvailable
  /\ pc = "done"
  /\ exitCode = 0
  /\ console[1] = "Warning: global.gc() not available."
  /\ console[Len(console)] = "Done."
  /\ Len(retainedInstances) = 1
  /\ output.finished

-----------------------------------------------------------------------------
(* C18 *)

\* C18 as stated: in a run with valid options every retained instance has
\* been built by the code of the strategy that the selector names, and the
\* snapshot file is named after the strategy that built them.
C18_SelectorBuilds ==
  (pc \notin {"start", "exited"}) =>
    \A i \in 1..Len(retainedInstances) :
      /\ retainedInstances[i].approach = parseArgs(argv).approach
      /\ output.path = "heap-" \o retainedInstances[i].approach \o "-"
                         \o ToString(Len(retainedInstances)) \o ".heapsnapshot"

-----------------------------------------------------------------------------
(* C19 *)

\* one iteration computed from the previous values alone: index i (from 1)
\* moves a quarter of the way to the mean of its neighbours and itself, a
\* missing neighbour replaced by the element, then is scaled and biased
C19_Pass(prev, scale, bias) ==
  [i \in 1..Len(prev) |->
     MulQ[prev[i]
          + MulQ[DivInt[prev[IF i = 1 THEN i ELSE i - 1] + prev[i]
                        + prev[IF i = Len(prev) THEN i ELSE i + 1], 3] - prev[i],
                 Q \div 4],
          scale]
     + MulQ[bias, Q \div 10000]]

RECURSIVE C19_Passes(_, _, _, _)
C19_Passes(prev, scale, bias, k) ==
  IF k = 0 THEN prev ELSE C19_Passes(C19_Pass(prev, scale, bias), scale, bias, k - 1)

\* C19: in every iteration of simulate all indices update atomically.  Under
\* every strategy the values a simulate call leaves are those of its
\* iterations computed one after the other, each from the values of the
\* previous iteration alone.
C19_AtomicUpdate ==
  [][(nCalls' # nCalls /\ lastCall'.op = "simulate") =>
       \A a \in Strategies :
         arrays'[ValuesRef(things'[a])]
           = C19_Passes(arrays[ValuesRef(things[a])], ScaleOf(things[a]),
                        BiasOf(things[a]), IF lastCall'.arg < 1 THEN 1 ELSE lastCall'.arg)]_vars

\* simulate(2) has been called on instances built from two unequal values
C19_Witness ==
  /\ AllBuilt
  /\ nCalls = 1
  /\ lastCall = [op |-> "simulate", arg |-> 2]
  /\ arrays[ctorArgs.values] = <<-Q, Q \div 2>>
  /\ \A a \in Strategies :
       /\ Len(ValuesOf(a)) = 2
       /\ ValuesOf(a)[1] # ValuesOf(a)[2]
       /\ ValuesOf(a) # arrays[ctorArgs.values]

-----------------------------------------------------------------------------
(* C14 *)

\* values[lo] + ... + values[hi], added from the left
C14_WindowSum[vals \in Seq(F64), lo \in Nat, hi \in Nat] ==
  IF hi < lo THEN F64Zero ELSE FAdd[C14_WindowSum[vals, lo, hi - 1], vals[hi]]

\* the effective window: windowSize clamped into [1, max(1, n)]
C14_Window ==
  IF rolling.windowSize < 1 THEN 1
  ELSE IF rolling.windowSize > Max[1, Len(rolling.state.values)]
  THEN Max[1, Len(rolling.state.values)]
  ELSE rolling.windowSize

\* (mean of the window that ends at index i, from 1) * scale + bias * 0.001
C14_Direct(i) ==
  FAdd[FMul[FDiv[C14_WindowSum[rolling.state.values, Max[1, i - C14_Window + 1], i],
                 FromInt[i - Max[1, i - C14_Window + 1] + 1]],
            rolling.state.scale],
       FMul[rolling.state.bias, Double.milli]]

\* C14 as stated: rollingAverage returns a sequence of the length of values
\* whose element i is the directly computed mean of the window that ends at
\* i, times scale plus bias * 0.001; with a window of 1 it is
\* value * scale + bias * 0.001.
C14_WindowMean ==
  rolling.called =>
    /\ Len(rolling.output) = Len(rolling.state.values)
    /\ \A i \in 1..Len(rolling.output) :
         /\ rolling.output[i] = C14_Direct(i)
         /\ C14_Window = 1 =>
              rolling.output[i]
                = FAdd[FMul[rolling.state.values[i], rolling.state.scale],
                       FMul[rolling.state.bias, Double.milli]]

====
